---- MODULE Spec2Model ----
(***************************************************************************)
(* Model of the tokenization subsystem of src/do_tokenize.py: the regex    *)
(* segmentation, the BasicTokenizer (vocabulary construction, encode,      *)
(* decode, persistence to the JSON vocabulary file) and the "B" entry of   *)
(* the TOKENIZERS registry.                                                *)
(*                                                                         *)
(* A text, a token and the content of the vocabulary file are sequences of *)
(* one-character strings.  json.dump and json.load are modelled on that    *)
(* character level.                                                        *)
(*                                                                         *)
(* The module also models download_books of src/do_download.py: the loop   *)
(* over the candidate ids, with each call of download_book returning True, *)
(* returning False or raising.                                             *)
(***************************************************************************)
EXTENDS Integers, Sequences, FiniteSets, TLC

VARIABLES
    inst,     \* inst[p]: the BasicTokenizer instance process p holds (or none)
    file,     \* the vocabulary file ./data/vocabulary/basictokenizer_vocab.json
    last,     \* the call that has just returned (op = "none": no such call)
    loaded,   \* loaded[p]: how many entries inst[p] had when __init__ returned
    dl        \* download_books of do_download.py: its arguments, locals and
              \* position, the ids it has tried and the files it has written

vars == <<inst, file, last, loaded, dl>>

\* the variables of the tokenizer
tok_vars == <<inst, file, last, loaded>>

----------------------------------------------------------------------------
(* Bounds of the model *)

\* longest input text drawn from Alphabet
MaxTextLen == 2
\* encode is not taken when it would grow a vocabulary beyond this length
MaxVocab == 4
\* longest id sequence given to decode
MaxIds == 2

\* the longest vocabulary that is saved and loaded again
MaxSaved == 2
\* longest text over SegAlphabet that is segmented
MaxSegLen == 4
\* most candidate ids, largest num_books and largest retry_count given to
\* download_books
MaxCandidates == 3
MaxBooks == 2
MaxRetry == 2

\* the two processes that may use the vocabulary path
AllProcs == {1, 2}

\* characters of the enumerated texts: a letter, a whitespace character and
\* a punctuation delimiter (one that json.dump has to escape)
Alphabet == {"a", " ", "\""}

----------------------------------------------------------------------------
(* Special tokens and the unknown marker *)

BOS == <<"<", "|", "B", "O", "S", "|", ">">>
EOS == <<"<", "|", "E", "O", "S", "|", ">">>
UNK == <<"[", "U", "N", "K", "]">>

\* a bug that lists the end marker first
special_tokens_reversed == <<EOS, BOS>>

\* the keys of self.special_tokens, in insertion order
special_tokens == <<BOS, EOS>>

RECURSIVE TextsOfLen(_)
TextsOfLen(n) ==
    IF n = 0 THEN {<<>>}
    ELSE {Append(t, c) : t \in TextsOfLen(n - 1), c \in Alphabet}

\* the input texts: every text over Alphabet up to MaxTextLen, and the two
\* texts that spell the special tokens
Texts == UNION {TextsOfLen(n) : n \in 0..MaxTextLen} \cup {BOS, EOS}

\* the single-piece text "hi"
Hi == <<"h", "i">>

RECURSIVE IdSeqsOfLen(_)
IdSeqsOfLen(n) ==
    IF n = 0 THEN {<<>>}
    ELSE {Append(s, i) : s \in IdSeqsOfLen(n - 1), i \in (-1)..MaxVocab}

\* the id sequences given to decode: negative ids and ids beyond any
\* vocabulary (MaxVocab itself) included
IdSeqs == UNION {IdSeqsOfLen(n) : n \in 0..MaxIds}

Range(s) == {s[i] : i \in 1..Len(s)}

----------------------------------------------------------------------------
(* Segmentation: re.split(r'([,.:;?_!"()\']|--|\s)', text), then strip and  *)
(* drop the empty items                                                    *)

Punct == {",", ".", ":", ";", "?", "_", "!", "\"", "(", ")", "'"}

\* what \s matches and what str.strip() removes
Space == {" ", "\t", "\n", "\r", "\f"}

\* re.split with one capture group: the items between the delimiters and
\* the delimiters themselves, alternating; the scan is leftmost-first
RECURSIVE re_split(_, _, _, _)
re_split(text, i, cur, out) ==
    IF i > Len(text) THEN Append(out, cur)
    ELSE IF text[i] \in Punct
        THEN re_split(text, i + 1, <<>>, out \o <<cur, <<text[i]>>>>)
    ELSE IF i < Len(text) /\ text[i] = "-" /\ text[i + 1] = "-"
        THEN re_split(text, i + 2, <<>>, out \o <<cur, <<"-", "-">>>>)
    ELSE IF text[i] \in Space
        THEN re_split(text, i + 1, <<>>, out \o <<cur, <<text[i]>>>>)
    ELSE re_split(text, i + 1, Append(cur, text[i]), out)

RECURSIVE lstrip(_)
lstrip(s) == IF s # <<>> /\ Head(s) \in Space THEN lstrip(Tail(s)) ELSE s

RECURSIVE rstrip(_)
rstrip(s) ==
    IF s # <<>> /\ s[Len(s)] \in Space
    THEN rstrip(SubSeq(s, 1, Len(s) - 1)) ELSE s

strip(s) == rstrip(lstrip(s))

\* a bug that strips the items and keeps the empty ones
RECURSIVE StripNonEmpty_keeps_empty(_)
StripNonEmpty_keeps_empty(items) ==
    IF items = <<>> THEN <<>>
    ELSE <<strip(Head(items))>> \o StripNonEmpty_keeps_empty(Tail(items))

RECURSIVE StripNonEmpty(_)
StripNonEmpty(items) ==
    IF items = <<>> THEN <<>>
    ELSE IF strip(Head(items)) # <<>>
        THEN <<strip(Head(items))>> \o StripNonEmpty(Tail(items))
    ELSE StripNonEmpty(Tail(items))

\* text_tokens of encode
Segment(text) == StripNonEmpty(re_split(text, 1, <<>>, <<>>))

\* a bug that leaves out tokens.append("<|EOS|>")
Framed_no_EOS(text) == <<BOS>> \o Segment(text)

\* tokens of encode: the framed sequence
Framed(text) == <<BOS>> \o Segment(text) \o <<EOS>>

----------------------------------------------------------------------------
(* The vocabulary file: json.dump(self.vocab, f) and json.load(f)          *)

\* a bug that writes every character as it is
Escaped_nothing(c) == <<c>>

\* the two-character escapes json.dump writes inside a string
Escaped(c) ==
    CASE c = "\"" -> <<"\\", "\"">>
      [] c = "\\" -> <<"\\", "\\">>
      [] c = "\n" -> <<"\\", "n">>
      [] c = "\r" -> <<"\\", "r">>
      [] c = "\t" -> <<"\\", "t">>
      [] c = "\f" -> <<"\\", "f">>
      [] OTHER -> <<c>>

RECURSIVE json_string_body(_)
json_string_body(tok) ==
    IF tok = <<>> THEN <<>>
    ELSE Escaped(Head(tok)) \o json_string_body(Tail(tok))

json_string(tok) == <<"\"">> \o json_string_body(tok) \o <<"\"">>

RECURSIVE json_items(_)
json_items(vocab) ==
    IF vocab = <<>> THEN <<>>
    ELSE IF Len(vocab) = 1 THEN json_string(vocab[1])
    ELSE json_string(Head(vocab)) \o <<",", " ">> \o json_items(Tail(vocab))

\* json.dump of a list of strings with the default separators
json_dump(vocab) == <<"[">> \o json_items(vocab) \o <<"]">>

JsonFail == [ok |-> FALSE, val |-> <<>>, pos |-> 0]

RECURSIVE skip_ws(_, _)
skip_ws(s, i) ==
    IF i <= Len(s) /\ s[i] \in {" ", "\t", "\n", "\r"}
    THEN skip_ws(s, i + 1) ELSE i

\* the character an escape \x stands for (the escapes json.dump writes,
\* and \/), or <<>> when x starts no such escape
Unescaped(x) ==
    CASE x = "\"" -> <<"\"">>
      [] x = "\\" -> <<"\\">>
      [] x = "/" -> <<"/">>
      [] x = "n" -> <<"\n">>
      [] x = "r" -> <<"\r">>
      [] x = "t" -> <<"\t">>
      [] x = "f" -> <<"\f">>
      [] OTHER -> <<>>

\* a JSON string from the position after its opening quote
RECURSIVE scan_string(_, _, _)
scan_string(s, i, acc) ==
    IF i > Len(s) THEN JsonFail
    ELSE IF s[i] = "\"" THEN [ok |-> TRUE, val |-> acc, pos |-> i + 1]
    ELSE IF s[i] = "\\"
        THEN IF i + 1 > Len(s) \/ Unescaped(s[i + 1]) = <<>> THEN JsonFail
             ELSE scan_string(s, i + 2, acc \o Unescaped(s[i + 1]))
    ELSE IF s[i] \in {"\n", "\r", "\t", "\f"} THEN JsonFail
    ELSE scan_string(s, i + 1, Append(acc, s[i]))

\* the elements of a JSON array of strings, from the start of an element
RECURSIVE parse_items(_, _, _)
parse_items(s, i, acc) ==
    IF i > Len(s) \/ s[i] # "\"" THEN JsonFail
    ELSE LET r == scan_string(s, i + 1, <<>>)
             j == skip_ws(s, r.pos)
         IN  IF ~r.ok \/ j > Len(s) THEN JsonFail
             ELSE IF s[j] = ","
                 THEN parse_items(s, skip_ws(s, j + 1), Append(acc, r.val))
             ELSE IF s[j] = "]"
                 THEN [ok |-> TRUE, val |-> Append(acc, r.val), pos |-> j + 1]
             ELSE JsonFail

\* json.load on the file's content: ok = FALSE when the decoder raises;
\* else type "list" and the list of strings, or type "dict" for the empty
\* object {} (other JSON values, numbers, null, nested values, are in none
\* of the file contents of this model: they are not ok here)
json_load(s) ==
    LET i == skip_ws(s, 1)
        j == skip_ws(s, i + 1)
        r == IF i > Len(s) \/ s[i] \notin {"[", "{"} THEN JsonFail
             ELSE IF s[i] = "{"
                 THEN IF j <= Len(s) /\ s[j] = "}"
                      THEN [ok |-> TRUE, val |-> <<>>, pos |-> j + 1]
                      ELSE JsonFail
             ELSE IF j <= Len(s) /\ s[j] = "]"
                 THEN [ok |-> TRUE, val |-> <<>>, pos |-> j + 1]
             ELSE parse_items(s, j, <<>>)
    IN  IF r.ok /\ skip_ws(s, r.pos) > Len(s)
        THEN [ok |-> TRUE, val |-> r.val,
              type |-> IF s[i] = "{" THEN "dict" ELSE "list"]
        ELSE [ok |-> FALSE, val |-> <<>>, type |-> "list"]

\* the file system entry of self.vocab_file
NoFile == [exists |-> FALSE, data |-> <<>>]

\* save_vocab: open(self.vocab_file, "w") and json.dump(self.vocab, f)
save_vocab(vocab) == [exists |-> TRUE, data |-> json_dump(vocab)]

\* save_vocab interrupted after k characters reached the file: open(.., "w")
\* has truncated it, the rest of the dump is lost
save_vocab_cut(vocab, k) ==
    [exists |-> TRUE, data |-> SubSeq(json_dump(vocab), 1, k)]

\* the numbers of characters that can have reached the file when a save
\* of vocab is interrupted
Cuts(vocab) == 0..(Len(json_dump(vocab)) - 1)

----------------------------------------------------------------------------
(* BasicTokenizer                                                          *)

\* no instance (live = FALSE); vocab_type is the Python type of self.vocab,
\* "list" from line 54 on
NoInst ==
    [live |-> FALSE, vocab |-> <<>>, token_to_id |-> <<>>, id_to_token |-> <<>>,
     vocab_type |-> "list"]

\* {token: idx for idx, token in enumerate(vocab)}: a later index wins
token_to_id_of(vocab) ==
    [t \in Range(vocab) |->
        (CHOOSE i \in 1..Len(vocab) :
            vocab[i] = t /\ \A j \in (i + 1)..Len(vocab) : vocab[j] # t) - 1]

\* {idx: token for idx, token in enumerate(vocab)}
id_to_token_of(vocab) == [i \in 0..(Len(vocab) - 1) |-> vocab[i + 1]]

\* the instance __init__ builds from the list json.load returned
Loaded(vocab) ==
    [live |-> TRUE, vocab |-> vocab,
     token_to_id |-> token_to_id_of(vocab),
     id_to_token |-> id_to_token_of(vocab),
     vocab_type |-> "list"]

\* the instance __init__ builds when json.load returned the empty dict:
\* self.vocab is that dict, and enumerate over it gives two empty mappings
LoadedDict == [Loaded(<<>>) EXCEPT !.vocab_type = "dict"]

\* a bug that takes len(self.vocab) after the append as the new id
AddToken_off_by_one(t, token) ==
    [live |-> TRUE,
     vocab |-> Append(t.vocab, token),
     token_to_id |->
        [x \in DOMAIN t.token_to_id \cup {token} |->
            IF x = token THEN Len(t.vocab) + 1 ELSE t.token_to_id[x]],
     id_to_token |->
        [i \in DOMAIN t.id_to_token \cup {Len(t.vocab) + 1} |->
            IF i = Len(t.vocab) + 1 THEN token ELSE t.id_to_token[i]],
     vocab_type |-> t.vocab_type]

\* self.vocab.append(token); self.token_to_id[token] = len(self.vocab) - 1;
\* self.id_to_token[len(self.vocab) - 1] = token
AddToken(t, token) ==
    [live |-> TRUE,
     vocab |-> Append(t.vocab, token),
     token_to_id |->
        [x \in DOMAIN t.token_to_id \cup {token} |->
            IF x = token THEN Len(t.vocab) ELSE t.token_to_id[x]],
     id_to_token |->
        [i \in DOMAIN t.id_to_token \cup {Len(t.vocab)} |->
            IF i = Len(t.vocab) THEN token ELSE t.id_to_token[i]],
     vocab_type |-> t.vocab_type]

\* the else branch of __init__: the special tokens, in order
RECURSIVE InitSpecial(_, _)
InitSpecial(t, toks) ==
    IF toks = <<>> THEN t
    ELSE InitSpecial(AddToken(t, Head(toks)), Tail(toks))

Fresh == InitSpecial([NoInst EXCEPT !.live = TRUE], special_tokens)

\* __init__ on the file f: the instance, the file afterwards, and ok = FALSE
\* when json.load raises (the exception leaves __init__: no instance)
BasicTokenizer(f) ==
    IF f.exists
    THEN LET r == json_load(f.data)
         IN  IF ~r.ok THEN [ok |-> FALSE, inst |-> NoInst, file |-> f]
             ELSE IF r.type = "dict"
                 THEN [ok |-> TRUE, inst |-> LoadedDict, file |-> f]
             ELSE [ok |-> TRUE, inst |-> Loaded(r.val), file |-> f]
    ELSE [ok |-> TRUE, inst |-> Fresh, file |-> save_vocab(Fresh.vocab)]

\* a bug that treats every token as new
is_known_never(t, token) == FALSE

\* "token not in self.token_to_id", negated
is_known(t, token) == token \in DOMAIN t.token_to_id

\* the for loop of encode over the framed tokens
RECURSIVE encode_loop(_, _, _, _)
encode_loop(t, tokens, token_ids, new_tokens) ==
    IF tokens = <<>>
    THEN [inst |-> t, token_ids |-> token_ids, new_tokens |-> new_tokens]
    ELSE LET token == Head(tokens)
             known == is_known(t, token)
             t2 == IF known THEN t ELSE AddToken(t, token)
         IN  encode_loop(t2, Tail(tokens),
                         Append(token_ids, t2.token_to_id[token]),
                         IF known THEN new_tokens
                         ELSE Append(new_tokens, token))

\* encode without its save: the instance afterwards, the ids, the new tokens
encode(t, text) == encode_loop(t, Framed(text), <<>>, <<>>)

\* self.vocab.append raises AttributeError when self.vocab is no list: the
\* first token that is not known ends the call, nothing changed before it
encode_raises(t, text) ==
    /\ t.vocab_type # "list"
    /\ \E k \in 1..Len(Framed(text)) : ~is_known(t, Framed(text)[k])

\* a bug that saves only when nothing was added
encode_saves_inverted(vocab_update, new_tokens) ==
    vocab_update /\ new_tokens = <<>>

\* "if vocab_update and new_tokens: self.save_vocab()"
encode_saves(vocab_update, new_tokens) == vocab_update /\ new_tokens # <<>>

\* a save that appends the new tokens to what the file holds instead of
\* rewriting the file from the instance
encode_file_append(f, r, vocab_update) ==
    IF encode_saves(vocab_update, r.new_tokens)
    THEN save_vocab((IF f.exists THEN json_load(f.data).val ELSE <<>>)
                    \o r.new_tokens)
    ELSE f

\* the file after encode returned r on an instance whose file was f
encode_file(f, r, vocab_update) ==
    IF encode_saves(vocab_update, r.new_tokens)
    THEN save_vocab(r.inst.vocab) ELSE f

\* a bug that indexes the list self.vocab, where a negative index counts
\* from the end
lookup_list_index(t, token_id) ==
    IF token_id \in 0..(Len(t.vocab) - 1) THEN t.vocab[token_id + 1]
    ELSE IF -token_id \in 1..Len(t.vocab)
        THEN t.vocab[Len(t.vocab) + token_id + 1]
    ELSE UNK

\* self.id_to_token.get(token_id, "[UNK]")
lookup(t, token_id) ==
    IF token_id \in DOMAIN t.id_to_token THEN t.id_to_token[token_id] ELSE UNK

\* "".join(tokens) over the looked-up tokens
RECURSIVE decode(_, _)
decode(t, token_ids) ==
    IF token_ids = <<>> THEN <<>>
    ELSE lookup(t, Head(token_ids)) \o decode(t, Tail(token_ids))

----------------------------------------------------------------------------
(* The state machine                                                       *)

\* the record of a call: op, the calling process, the arguments (text and
\* grow = vocab_update for an encode, ids for a decode), the return value
\* (ids of an encode, out of a decode), the instance that served the call as
\* the call left it, the tokens the call added, and whether the call raised
Call(op, p, text, grow, ids, out, t, new_tokens, err) ==
    [op |-> op, proc |-> p, text |-> text, grow |-> grow, ids |-> ids,
     out |-> out, inst |-> t, new_tokens |-> new_tokens, err |-> err,
     tokenizer_type |-> "B", text_tokens |-> <<>>]

\* no call has just returned
NoCall == Call("none", 0, <<>>, FALSE, <<>>, <<>>, NoInst, <<>>, FALSE)

\* the caller is free to make its next call
Idle == last.op = "none"

\* download_books is not running.  A download state holds the arguments
\* (candidates is book_ids as passed, book_ids what the pops have left of
\* it), the locals, the position pc, the ids handed to download_book so
\* far (attempts), the pairs <<index, book_id>> of the files written
\* (files), and whether the warning of line 115 was printed
NoDownload ==
    [pc |-> "none", candidates |-> <<>>, book_ids |-> <<>>, num_books |-> 0,
     retry_count |-> 0, successful_downloads |-> 0, index |-> 0,
     book_id |-> 0, retries |-> 0, attempts |-> <<>>, files |-> {},
     warned |-> FALSE]

Init ==
    /\ inst = [p \in AllProcs |-> NoInst]
    /\ file = NoFile
    /\ last = NoCall
    /\ loaded = [p \in AllProcs |-> 0]
    /\ dl = NoDownload

\* the caller has taken what the call returned (main prints it) and goes on
Return ==
    /\ ~Idle
    /\ last' = NoCall
    /\ UNCHANGED <<inst, file, loaded, dl>>

\* tok = BasicTokenizer() in process p; when __init__ raises, tok keeps
\* what it was bound to
Construct(p) ==
    LET c == BasicTokenizer(file)
    IN  /\ Idle
        /\ inst' = IF c.ok THEN [inst EXCEPT ![p] = c.inst] ELSE inst
        /\ loaded' = IF c.ok THEN [loaded EXCEPT ![p] = Len(c.inst.vocab)]
                     ELSE loaded
        /\ file' = c.file
        /\ last' = Call("construct", p, <<>>, FALSE, <<>>, <<>>, c.inst,
                        <<>>, ~c.ok)
        /\ UNCHANGED dl

\* process p starts: it builds the one instance it holds while it runs
Start(p) ==
    /\ ~inst[p].live
    /\ Construct(p)

\* tok.encode(text, vocab_update) on the instance process p holds
Encode(p, text, vocab_update) ==
    /\ Idle
    /\ inst[p].live
    /\ LET r == encode(inst[p], text)
       IN  IF encode_raises(inst[p], text)
           THEN /\ last' = Call("encode", p, text, vocab_update, <<>>, <<>>,
                                inst[p], <<>>, TRUE)
                /\ UNCHANGED <<inst, file, loaded, dl>>
           ELSE /\ Len(r.inst.vocab) <= MaxVocab
                /\ inst' = [inst EXCEPT ![p] = r.inst]
                /\ file' = encode_file(file, r, vocab_update)
                /\ UNCHANGED <<loaded, dl>>
                /\ last' = Call("encode", p, text, vocab_update, r.token_ids,
                                <<>>, r.inst, r.new_tokens, FALSE)

\* tok.decode(token_ids) on the instance process p holds
Decode(p, token_ids) ==
    /\ Idle
    /\ inst[p].live
    /\ last' = Call("decode", p, <<>>, FALSE, token_ids,
                    decode(inst[p], token_ids), inst[p], <<>>, FALSE)
    /\ UNCHANGED <<inst, file, loaded, dl>>

\* encode_text(text, "B"): TOKENIZERS["B"]["encode"] builds a BasicTokenizer
\* and encodes with vocab_update at its default
encode_text(p, text) ==
    /\ Idle
    /\ LET c == BasicTokenizer(file)
           r == encode(c.inst, text)
       IN  IF ~c.ok \/ encode_raises(c.inst, text)
           THEN /\ last' = Call("encode_text", p, text, TRUE, <<>>, <<>>,
                                c.inst, <<>>, TRUE)
                /\ UNCHANGED <<inst, file, loaded, dl>>
           ELSE /\ Len(r.inst.vocab) <= MaxVocab
                /\ file' = encode_file(c.file, r, TRUE)
                /\ last' = Call("encode_text", p, text, TRUE, r.token_ids,
                                <<>>, r.inst, r.new_tokens, FALSE)
                /\ UNCHANGED <<inst, loaded, dl>>

\* decode_text(token_ids, "B"): TOKENIZERS["B"]["decode"] builds a
\* BasicTokenizer and decodes
decode_text(p, token_ids) ==
    /\ Idle
    /\ LET c == BasicTokenizer(file)
       IN  /\ file' = c.file
           /\ last' = IF c.ok
                      THEN Call("decode_text", p, <<>>, FALSE, token_ids,
                                decode(c.inst, token_ids), c.inst, <<>>, FALSE)
                      ELSE Call("decode_text", p, <<>>, FALSE, token_ids, <<>>,
                                NoInst, <<>>, TRUE)
           /\ UNCHANGED <<inst, loaded, dl>>

\* process p is killed inside save_vocab, after open(.., "w") and before the
\* dump is complete: k characters of the dump of vocab are in the file.
\* last.inst keeps the vocabulary the save was writing.
Killed(p, vocab, k, text) ==
    /\ Idle
    /\ file' = save_vocab_cut(vocab, k)
    /\ inst' = [inst EXCEPT ![p] = NoInst]
    /\ loaded' = [loaded EXCEPT ![p] = 0]
    /\ last' = Call("killed", p, text, TRUE, <<>>, <<>>, Loaded(vocab), <<>>,
                    TRUE)
    /\ UNCHANGED dl

\* the kill hits the save of __init__ (no file yet)
KilledInInit(p) ==
    /\ Idle
    /\ ~file.exists
    /\ \E k \in Cuts(Fresh.vocab) : Killed(p, Fresh.vocab, k, <<>>)

\* the kill hits the save of an encode on the held instance
KilledInEncode(p, text) ==
    /\ Idle
    /\ inst[p].live
    /\ LET r == encode(inst[p], text)
       IN  /\ Len(r.inst.vocab) <= MaxVocab
           /\ encode_saves(TRUE, r.new_tokens)
           /\ \E k \in Cuts(r.inst.vocab) : Killed(p, r.inst.vocab, k, text)

\* tok.save_vocab() on the instance process p holds
SaveVocab(p) ==
    /\ Idle
    /\ inst[p].live
    /\ file' = save_vocab(inst[p].vocab)
    /\ last' = Call("save_vocab", p, <<>>, FALSE, <<>>, <<>>, inst[p], <<>>,
                    FALSE)
    /\ UNCHANGED <<inst, loaded, dl>>

\* BasicTokenizer() in process p on a path whose file exists
Load(p) ==
    /\ file.exists
    /\ Construct(p)

\* lines 99-101 of encode on the argument text: text_tokens, the pieces of
\* the text
SplitText(text) ==
    /\ Idle
    /\ last' = [Call("split", 0, text, FALSE, <<>>, <<>>, NoInst, <<>>, FALSE)
                    EXCEPT !.text_tokens = Segment(text)]
    /\ UNCHANGED <<inst, file, loaded, dl>>

\* a bug that undoes the additions of an encode whose save raised
after_failed_save_rolled_back(t, r) == t

\* the instance an encode leaves when its save raised: the loop over the
\* tokens has run before the save, and encode has no except clause
after_failed_save(t, r) == r.inst

\* tok.encode(text) on the instance process p holds, when save_vocab raises
\* OSError and data is what the file then holds: the exception leaves
\* encode, no ids are returned
EncodeSaveFails(p, text, data) ==
    /\ Idle
    /\ inst[p].live
    /\ ~encode_raises(inst[p], text)
    /\ LET r == encode(inst[p], text)
       IN  /\ Len(r.inst.vocab) <= MaxVocab
           /\ encode_saves(TRUE, r.new_tokens)
           /\ inst' = [inst EXCEPT ![p] = after_failed_save(inst[p], r)]
           /\ file' = data
           /\ last' = Call("encode", p, text, TRUE, <<>>, <<>>,
                           after_failed_save(inst[p], r), r.new_tokens, TRUE)
           /\ UNCHANGED <<loaded, dl>>

\* open(self.vocab_file, "w") raises (permission denied): the file is as
\* it was
EncodeOpenFails(p, text) == EncodeSaveFails(p, text, file)

\* the write raises (disk full) after open(.., "w") truncated the file and
\* k characters of the dump reached it
EncodeWriteFails(p, text) ==
    /\ Idle
    /\ inst[p].live
    /\ \E k \in Cuts(encode(inst[p], text).inst.vocab) :
          EncodeSaveFails(p, text,
              save_vocab_cut(encode(inst[p], text).inst.vocab, k))

\* the keys of the TOKENIZERS table
TOKENIZERS == {"B", "TIKTOKEN", "BPE", "WP", "SP", "ULM", "BL-BPE", "CHAR", "T5"}

\* names that are not in the table
UnknownTypes == {"NOPE", "b", ""}

\* a bug that builds the BasicTokenizer before it looks the name up
at_lookup_constructed(f) == BasicTokenizer(f).file

\* the file when "tokenizer_type not in TOKENIZERS" raises: the lookup is
\* the first statement, no tokenizer has been built
at_lookup(f) == f

\* encode_text(text, tokenizer_type) for a name that is not in TOKENIZERS:
\* ValueError
encode_text_unknown(p, text, tokenizer_type) ==
    /\ Idle
    /\ tokenizer_type \notin TOKENIZERS
    /\ file' = at_lookup(file)
    /\ last' = [Call("encode_text", p, text, TRUE, <<>>, <<>>, NoInst, <<>>,
                     TRUE) EXCEPT !.tokenizer_type = tokenizer_type]
    /\ UNCHANGED <<inst, loaded, dl>>

\* decode_text(token_ids, tokenizer_type) for a name that is not in
\* TOKENIZERS: ValueError
decode_text_unknown(p, token_ids, tokenizer_type) ==
    /\ Idle
    /\ tokenizer_type \notin TOKENIZERS
    /\ file' = at_lookup(file)
    /\ last' = [Call("decode_text", p, <<>>, FALSE, token_ids, <<>>, NoInst,
                     <<>>, TRUE) EXCEPT !.tokenizer_type = tokenizer_type]
    /\ UNCHANGED <<inst, loaded, dl>>

\* one process: an instance it holds, and encodes through the registry
Next ==
    \/ Return
    \/ \E p \in {1} :
        \/ Construct(p)
        \/ \E text \in Texts, vocab_update \in BOOLEAN :
                Encode(p, text, vocab_update)
        \/ \E text \in Texts : encode_text(p, text)

Spec == Init /\ [][Next]_vars

\* one process that decodes, on an instance it holds and through the
\* registry; the vocabulary grows by encodes through the registry
NextDecode ==
    \/ Return
    \/ \E p \in {1} :
        \/ Construct(p)
        \/ \E text \in Texts : encode_text(p, text)
        \/ \E token_ids \in IdSeqs : Decode(p, token_ids)
        \/ \E token_ids \in IdSeqs : decode_text(p, token_ids)

SpecDecode == Init /\ [][NextDecode]_vars

\* one process that may be killed inside a save
NextKill ==
    \/ Return
    \/ \E p \in {1} :
        \/ Construct(p)
        \/ \E text \in Texts : Encode(p, text, TRUE)
        \/ KilledInInit(p)
        \/ \E text \in Texts : KilledInEncode(p, text)

SpecKill == Init /\ [][NextKill]_vars

\* two processes, each started once and holding its own instance for the
\* same path
NextTwo ==
    \/ Return
    \/ \E p \in AllProcs :
        \/ Start(p)
        \/ \E text \in Texts : Encode(p, text, TRUE)

SpecTwo == Init /\ [][NextTwo]_vars

\* one process, started once, whose saves may raise
NextSaveFails ==
    \/ Return
    \/ \E p \in {1} :
        \/ Start(p)
        \/ \E text \in Texts : Encode(p, text, TRUE)
        \/ \E text \in Texts : EncodeOpenFails(p, text)
        \/ \E text \in Texts : EncodeWriteFails(p, text)

SpecSaveFails == Init /\ [][NextSaveFails]_vars

\* the empty JSON object
EmptyObject == <<"{", "}">>

\* contents of an existing vocabulary file that are no list of token
\* strings: a dump of the initial vocabulary cut short (the empty file
\* included), and the empty JSON object
BadContents ==
    {SubSeq(json_dump(Fresh.vocab), 1, k) : k \in Cuts(Fresh.vocab)}
        \cup {EmptyObject}

\* the program starts on a path whose vocabulary file holds such a content
InitMalformed ==
    /\ inst = [p \in AllProcs |-> NoInst]
    /\ file \in {[exists |-> TRUE, data |-> d] : d \in BadContents}
    /\ last = NoCall
    /\ loaded = [p \in AllProcs |-> 0]
    /\ dl = NoDownload

\* one process on such a path: it constructs, and calls what it can
NextMalformed ==
    \/ Return
    \/ \E p \in {1} :
        \/ Construct(p)
        \/ \E text \in Texts : Encode(p, text, TRUE)
        \/ \E token_ids \in IdSeqs : Decode(p, token_ids)
        \/ \E text \in Texts : encode_text(p, text)
        \/ \E token_ids \in IdSeqs : decode_text(p, token_ids)

SpecMalformed == InitMalformed /\ [][NextMalformed]_vars

\* one process calling through the registry, with "B" and with names that
\* are not in the table
NextRegistry ==
    \/ Return
    \/ \E p \in {1} :
        \/ \E text \in Texts : encode_text(p, text)
        \/ \E token_ids \in IdSeqs : decode_text(p, token_ids)
        \/ \E text \in Texts, tokenizer_type \in UnknownTypes :
                encode_text_unknown(p, text, tokenizer_type)
        \/ \E token_ids \in IdSeqs, tokenizer_type \in UnknownTypes :
                decode_text_unknown(p, token_ids, tokenizer_type)

SpecRegistry == Init /\ [][NextRegistry]_vars

\* one process, started once, with the text "hi" among its inputs
NextFresh ==
    \/ Return
    \/ \E p \in {1} :
        \/ Start(p)
        \/ \E text \in Texts \cup {Hi} : Encode(p, text, TRUE)
        \/ \E text \in Texts \cup {Hi} : encode_text(p, text)

SpecFresh == Init /\ [][NextFresh]_vars

\* token strings: the empty string, the begin marker, every one-character
\* string over letters, JSON's own characters, white space and a line
\* break, and two-character strings that look like escapes or separators
TokenStrings ==
    {<<>>, BOS}
        \cup {<<c>> : c \in {"a", "\"", "\\", ",", " ", "\n", "]"}}
        \cup {<<"\\", "\"">>, <<"\\", "n">>, <<",", " ">>, <<"\"", "]">>}

\* the duplicate-free sequences of n token strings
RECURSIVE VocabsOfLen(_)
VocabsOfLen(n) ==
    IF n = 0 THEN {<<>>}
    ELSE UNION {{Append(v, t) : t \in TokenStrings \ Range(v)} :
                    v \in VocabsOfLen(n - 1)}

\* the well-formed vocabularies up to MaxSaved tokens
Vocabs == UNION {VocabsOfLen(n) : n \in 0..MaxSaved}

\* process 1 holds an instance whose entries are a well-formed vocabulary;
\* there is no file yet
InitRoundTrip ==
    /\ \E v \in Vocabs :
          /\ inst = [p \in AllProcs |-> IF p = 1 THEN Loaded(v) ELSE NoInst]
          /\ loaded = [p \in AllProcs |-> IF p = 1 THEN Len(v) ELSE 0]
    /\ file = NoFile
    /\ last = NoCall
    /\ dl = NoDownload

\* process 1 saves its vocabulary, process 2 builds a tokenizer from the
\* file
NextRoundTrip ==
    \/ Return
    \/ SaveVocab(1)
    \/ Load(2)

SpecRoundTrip == InitRoundTrip /\ [][NextRoundTrip]_vars

\* the characters of the texts that are segmented: a letter, the hyphen, a
\* punctuation delimiter and two kinds of white space
SegAlphabet == {"a", "-", ",", " ", "\t"}

RECURSIVE SegTextsOfLen(_)
SegTextsOfLen(n) ==
    IF n = 0 THEN {<<>>}
    ELSE {Append(t, c) : t \in SegTextsOfLen(n - 1), c \in SegAlphabet}

\* the text "Hello, world!"
HelloWorld ==
    <<"H", "e", "l", "l", "o", ",", " ", "w", "o", "r", "l", "d", "!">>

SegTexts == UNION {SegTextsOfLen(n) : n \in 0..MaxSegLen} \cup {HelloWorld}

\* the segmentation of every such text
NextSegment ==
    \/ Return
    \/ \E text \in SegTexts : SplitText(text)

SpecSegment == Init /\ [][NextSegment]_vars

\* one process and the instances it builds, with no other writer of the
\* file: it encodes with grow true or false and decodes on the instance
\* it holds
NextSingle ==
    \/ Return
    \/ \E p \in {1} :
        \/ Construct(p)
        \/ \E text \in Texts, vocab_update \in BOOLEAN :
                Encode(p, text, vocab_update)
        \/ \E token_ids \in IdSeqs : Decode(p, token_ids)

SpecSingle == Init /\ [][NextSingle]_vars

----------------------------------------------------------------------------
(* download_books of do_download.py                                        *)

\* the book ids a candidate list is made of
BookIds == 1..MaxCandidates

\* the lists fetch_random_book_ids can return to main: non-empty, and an id
\* can be there more than once (nothing removes duplicates)
CandidateLists == UNION {[1..n -> BookIds] : n \in 1..MaxCandidates}

\* download_books(book_ids, num_books, retry_count) has been called and has
\* run lines 88-89; main passes a non-empty list, num_books > 0 and
\* retry_count >= 0
InitDownload ==
    /\ inst = [p \in AllProcs |-> NoInst]
    /\ file = NoFile
    /\ last = NoCall
    /\ loaded = [p \in AllProcs |-> 0]
    /\ \E book_ids \in CandidateLists, num_books \in 1..MaxBooks,
          retry_count \in 0..MaxRetry :
          dl = [pc |-> "outer", candidates |-> book_ids,
                book_ids |-> book_ids, num_books |-> num_books,
                retry_count |-> retry_count, successful_downloads |-> 0,
                index |-> 1, book_id |-> 0, retries |-> 0, attempts |-> <<>>,
                files |-> {}, warned |-> FALSE]

\* "while successful_downloads < num_books and book_ids"
outer_continues(d) ==
    d.successful_downloads < d.num_books /\ d.book_ids # <<>>

\* lines 91-94: the outer loop takes the next candidate
OuterLoop ==
    /\ dl.pc = "outer"
    /\ outer_continues(dl)
    /\ dl' = [dl EXCEPT !.book_id = Head(dl.book_ids),
                        !.book_ids = Tail(dl.book_ids),
                        !.retries = 0,
                        !.pc = "inner"]
    /\ UNCHANGED tok_vars

\* lines 91 and 114-115: the outer loop ends, the warning is printed when
\* the count is short, and download_books returns
OuterExit ==
    /\ dl.pc = "outer"
    /\ ~outer_continues(dl)
    /\ dl' = [dl EXCEPT !.warned = dl.successful_downloads < dl.num_books,
                        !.pc = "done"]
    /\ UNCHANGED tok_vars

\* line 96 when retries > retry_count: the inner loop ends
InnerExit ==
    /\ dl.pc = "inner"
    /\ dl.retries > dl.retry_count
    /\ dl' = [dl EXCEPT !.pc = "outer"]
    /\ UNCHANGED tok_vars

\* lines 96-100: download_book returns True (the file of the index is
\* written)
DownloadOk ==
    /\ dl.pc = "inner"
    /\ dl.retries <= dl.retry_count
    /\ dl' = [dl EXCEPT !.attempts = Append(dl.attempts, dl.book_id),
                        !.files = dl.files \cup {<<dl.index, dl.book_id>>},
                        !.successful_downloads = dl.successful_downloads + 1,
                        !.index = dl.index + 1,
                        !.pc = "outer"]
    /\ UNCHANGED tok_vars

\* a bug that tries the same id again
retry_candidate_same(d) == [book_id |-> d.book_id, book_ids |-> d.book_ids]

\* lines 105-106: the retry takes the next candidate
retry_candidate(d) ==
    [book_id |-> Head(d.book_ids), book_ids |-> Tail(d.book_ids)]

\* a bug that moves to the next file name after a failure
index_after_failure_advanced(index) == index + 1

\* the index after a failed attempt: the else branch does not assign it
index_after_failure(index) == index

\* lines 96-97 and 101-112: download_book returns False
DownloadFails ==
    /\ dl.pc = "inner"
    /\ dl.retries <= dl.retry_count
    /\ LET d == [dl EXCEPT !.attempts = Append(dl.attempts, dl.book_id),
                           !.retries = dl.retries + 1,
                           !.index = index_after_failure(dl.index)]
       IN  dl' = IF d.retries <= d.retry_count
                 THEN IF d.book_ids # <<>>
                      THEN [d EXCEPT !.book_id = retry_candidate(d).book_id,
                                     !.book_ids = retry_candidate(d).book_ids]
                      ELSE [d EXCEPT !.pc = "outer"]
                 ELSE d
    /\ UNCHANGED tok_vars

\* lines 96-97: download_book raises (requests.get or the transfer fails
\* with an exception); nothing catches it, download_books is left
DownloadRaises ==
    /\ dl.pc = "inner"
    /\ dl.retries <= dl.retry_count
    /\ dl' = [dl EXCEPT !.attempts = Append(dl.attempts, dl.book_id),
                        !.pc = "raised"]
    /\ UNCHANGED tok_vars

NextDownload ==
    \/ OuterLoop
    \/ OuterExit
    \/ InnerExit
    \/ DownloadOk
    \/ DownloadFails
    \/ DownloadRaises

SpecDownload == InitDownload /\ [][NextDownload]_vars

\* every step of download_books is taken in the end: each call of
\* download_book comes back
SpecDownloadFair == SpecDownload /\ WF_vars(NextDownload)

----------------------------------------------------------------------------
(* Properties                                                              *)

\* an encode call that returned
IsEncode(c) == c.op \in {"encode", "encode_text"} /\ ~c.err

\* a decode call
IsDecode(c) == c.op \in {"decode", "decode_text"}

\* the first position of token in the sequence s
FirstPos(s, token) ==
    CHOOSE i \in 1..Len(s) : s[i] = token /\ \A j \in 1..(i - 1) : s[j] # token

\* entries and token_to_id of the instance t agree, the ids are dense from
\* 0, and no token has two ids
Consistent(t) ==
    /\ DOMAIN t.token_to_id = Range(t.vocab)
    /\ \A i \in 1..Len(t.vocab) : t.token_to_id[t.vocab[i]] = i - 1
    /\ {t.token_to_id[x] : x \in DOMAIN t.token_to_id} = 0..(Len(t.vocab) - 1)
    /\ \A i, j \in 1..Len(t.vocab) : t.vocab[i] = t.vocab[j] => i = j

\* the tokens an encode added are the last entries of the vocabulary, in the
\* order in which they first occur in the framed text: their ids increase
\* in insertion order
InInsertionOrder(c) ==
    LET n == Len(c.inst.vocab) - Len(c.new_tokens)
    IN  /\ n >= 0
        /\ \A k \in 1..Len(c.new_tokens) :
              /\ c.inst.vocab[n + k] = c.new_tokens[k]
              /\ c.new_tokens[k] \in Range(Framed(c.text))
        /\ \A j, k \in 1..Len(c.new_tokens) :
              j < k => FirstPos(Framed(c.text), c.new_tokens[j])
                          < FirstPos(Framed(c.text), c.new_tokens[k])

\* C1: in every state reached by constructing the tokenizer (fresh or loaded
\* from the file) and running encodes, every instance (the one a process
\* holds, the one that served the last call) has mutually consistent entries
\* and token_to_id: token_to_id[entries[i]] = i, ids dense from 0, no token
\* with two ids; and the tokens an encode adds get the next ids in insertion
\* order.
C1_VocabularyConsistent ==
    /\ \A p \in AllProcs : inst[p].live => Consistent(inst[p])
    /\ last.inst.live => Consistent(last.inst)
    /\ IsEncode(last) => InInsertionOrder(last)

\* an encode on a held instance has added two tokens in one call, and the
\* file holds a vocabulary a later construction loads
C1_Witness ==
    /\ last.op = "encode"
    /\ Len(last.new_tokens) = 2
    /\ inst[last.proc] = last.inst
    /\ file.exists /\ Len(json_load(file.data).val) > 2

\* the encode call c returned one id per token
OneIdPerToken(c) ==
    \A j, k \in 1..Len(c.ids) :
        Framed(c.text)[j] = Framed(c.text)[k] => c.ids[j] = c.ids[k]

\* the tokens the instance process p holds has assigned in its own encode
\* calls (its entries beyond those it had when built): each of these calls
\* returned the token's id, its index in the entries
OwnTokens(p) ==
    {inst[p].vocab[i] : i \in (loaded[p] + 1)..Len(inst[p].vocab)}

\* process p holds in the next state the instance it holds now
SameInstance(p) ==
    /\ inst[p].live /\ inst'[p].live
    /\ ~(last'.op = "construct" /\ last'.proc = p)

\* the vocabulary the file gives a newly built instance
FileVocab(f) == BasicTokenizer(f).inst.vocab

\* C2 as claimed: an encode call returns one id per token, and for a token
\* to which an earlier encode call on the path (a call on the instance a
\* process holds) has given an id, any later encode call on the path,
\* through the registry included, returns that id.
C2_SameIdOnPath ==
    IsEncode(last) =>
        /\ OneIdPerToken(last)
        /\ \A p \in AllProcs : inst[p].live =>
              \A k \in 1..Len(last.ids) :
                  Framed(last.text)[k] \in OwnTokens(p) =>
                      last.ids[k] = inst[p].token_to_id[Framed(last.text)[k]]

\* C2, amended: within one tokenizer instance, encoding the same token
\* twice, in the same call or in any later call, yields the same id: a call
\* returns one id per token, the id it returns is the instance's
\* token_to_id entry, and an entry once made never changes while the
\* instance lives.  A call through the registry returns, for every token
\* that is in the file it loads, the token's index in that file.
C2_SameIdPerInstance ==
    [][/\ IsEncode(last') =>
            /\ OneIdPerToken(last')
            /\ \A k \in 1..Len(last'.ids) :
                  last'.ids[k] = last'.inst.token_to_id[Framed(last'.text)[k]]
       /\ \A p \in AllProcs : SameInstance(p) =>
            \A t \in DOMAIN inst[p].token_to_id :
                /\ t \in DOMAIN inst'[p].token_to_id
                /\ inst'[p].token_to_id[t] = inst[p].token_to_id[t]
       /\ (last'.op = "encode_text" /\ ~last'.err) =>
            \A k \in 1..Len(last'.ids), i \in 1..Len(FileVocab(file)) :
                FileVocab(file)[i] = Framed(last'.text)[k]
                    => last'.ids[k] = i - 1]_vars

\* an encode on a held instance met a token twice in one text, and the
\* token had its id from an earlier call
C2_Witness ==
    /\ last.op = "encode"
    /\ last.new_tokens = <<>>
    /\ \E j, k \in 1..Len(Segment(last.text)) :
          j # k /\ Segment(last.text)[j] = Segment(last.text)[k]

\* the token sequence of the file equals the entries of the instance t
FileHolds(t) ==
    /\ file.exists
    /\ json_load(file.data).ok
    /\ json_load(file.data).val = t.vocab

\* C3 as claimed: whenever an encode call has returned, the token sequence
\* in the vocabulary file equals the in-memory entries of the instance.
C3_EveryEncodePersists == IsEncode(last) => FileHolds(last.inst)

\* C3, amended: every encode call with grow = true that appends at least
\* one new token persists the vocabulary before it returns: when such a call
\* has returned, the token sequence in the file equals the instance's
\* entries.
C3_GrowEncodePersists ==
    (IsEncode(last) /\ last.grow /\ last.new_tokens # <<>>)
        => FileHolds(last.inst)

\* an encode with grow = true on a held instance has added a token
C3_Witness ==
    /\ last.op = "encode" /\ ~last.err
    /\ last.grow
    /\ last.new_tokens # <<>>

\* the text of the call c has a piece that is not in the vocabulary v
HasNewPiece(c, v) == \E k \in 1..Len(Segment(c.text)) : Segment(c.text)[k] \notin Range(v)

\* C4 as claimed, for an encode through the registry that follows encode
\* calls on a held instance which assigned tokens: the vocabulary is not
\* smaller than the one those calls reached, and if the call strictly
\* increases it, its text has a piece those calls had not seen.
C4_PathGrowth ==
    (last.op = "encode_text" /\ ~last.err) =>
        \A p \in AllProcs : (inst[p].live /\ OwnTokens(p) # {}) =>
            /\ Len(last.inst.vocab) >= Len(inst[p].vocab)
            /\ last.new_tokens # <<>> => HasNewPiece(last, inst[p].vocab)

\* C4, amended: the vocabulary of one tokenizer instance never shrinks, and
\* an encode call strictly increases it if and only if the text has a piece
\* that is not in that instance's vocabulary when the call starts (for a
\* call through the registry: not in the file the call loads).
C4_InstanceGrowth ==
    [][/\ \A p \in AllProcs : SameInstance(p) =>
            /\ Len(inst'[p].vocab) >= Len(inst[p].vocab)
            /\ Len(inst'[p].vocab) > Len(inst[p].vocab)
                  <=> (/\ last'.op = "encode" /\ last'.proc = p
                       /\ HasNewPiece(last', inst[p].vocab))
       /\ (last'.op = "encode_text" /\ ~last'.err) =>
            /\ Len(last'.inst.vocab) >= Len(FileVocab(file))
            /\ Len(last'.inst.vocab) > Len(FileVocab(file))
                  <=> HasNewPiece(last', FileVocab(file))]_vars

\* an encode grew a held instance's vocabulary by a piece it had not held,
\* in a text that also has a piece it held
C4_Witness ==
    /\ last.op = "encode"
    /\ Len(last.new_tokens) = 1
    /\ Len(Segment(last.text)) = 2
    /\ inst[last.proc] = last.inst

\* C5 as claimed: when a process is killed inside a save, the next
\* construction of the tokenizer on the path loads the complete old token
\* sequence (what a construction before the kill would have got) or the
\* complete new one (what the save was writing).
C5_KillLeavesOldOrNew ==
    [][last'.op = "killed" =>
          /\ BasicTokenizer(file').ok
          /\ BasicTokenizer(file').inst.vocab
                \in {FileVocab(file), last'.inst.vocab}]_vars

\* C6: two processes hold independently loaded instances for one path and
\* encode with grow = true.  When a call of q that added a token has
\* returned, the file holds exactly q's entries; every token the other
\* process p assigned itself (its entries beyond those it loaded) that q does
\* not hold is absent from the file while still in p's memory, and the id p
\* got for it decodes to something else ([UNK] or another token) in a
\* tokenizer loaded from the file now.
C6_LastWriterWins ==
    \A q \in AllProcs :
        (last.op = "encode" /\ last.proc = q /\ last.grow
                /\ last.new_tokens # <<>>) =>
            /\ FileHolds(inst[q])
            /\ \A p \in AllProcs \ {q} : inst[p].live =>
                  \A i \in (loaded[p] + 1)..Len(inst[p].vocab) :
                      inst[p].vocab[i] \notin Range(inst[q].vocab) =>
                          /\ inst[p].vocab[i] \notin Range(json_load(file.data).val)
                          /\ inst[p].token_to_id[inst[p].vocab[i]] = i - 1
                          /\ lookup(BasicTokenizer(file).inst, i - 1)
                                # inst[p].vocab[i]

\* both processes loaded the same two-token file; p then added one token and
\* q another: q wrote last, and p's id 2 now decodes to q's token
C6_Witness ==
    \E p, q \in AllProcs :
        /\ p # q
        /\ last.op = "encode" /\ last.proc = q /\ last.new_tokens # <<>>
        /\ inst[p].live /\ loaded[p] = 2 /\ loaded[q] = 2
        /\ Len(inst[p].vocab) = 3
        /\ inst[p].vocab[3] \notin Range(inst[q].vocab)
        /\ lookup(BasicTokenizer(file).inst, 2) = inst[q].vocab[3]

\* C7 as claimed: a decode, on a held instance or through the registry,
\* leaves the instances and the vocabulary file as they were.
C7_DecodeLeavesStateAlone ==
    [][IsDecode(last') => (inst' = inst /\ file' = file)]_vars

\* the ids of the special tokens in the instance t
begin_id(t) == t.token_to_id[BOS]
end_id(t) == t.token_to_id[EOS]

\* C8 as claimed: no piece of a segmented text equals a special token, so
\* in an encode result the begin-marker id occurs only first and the
\* end-marker id only last.
C8_MarkersOnlyFrame ==
    IsEncode(last) =>
        /\ \A k \in 1..Len(Segment(last.text)) :
              Segment(last.text)[k] \notin {BOS, EOS}
        /\ \A k \in 2..(Len(last.ids) - 1) :
              last.ids[k] \notin {begin_id(last.inst), end_id(last.inst)}

\* C9: encode returns one id per framed piece, in order: the begin-marker
\* id, then for the k-th segmented piece the id under which the vocabulary
\* holds that piece, then the end-marker id; the vocabulary holds no piece
\* twice (a repeated piece reuses its id); for the empty text the result is
\* <<begin_id, end_id>>.
C9_OneIdPerFramedPiece ==
    IsEncode(last) =>
        LET pieces == Segment(last.text)
            v == last.inst.vocab
            n == Len(last.ids)
        IN  /\ n = Len(pieces) + 2
            /\ last.ids[1] = begin_id(last.inst)
            /\ last.ids[n] = end_id(last.inst)
            /\ v[begin_id(last.inst) + 1] = BOS
            /\ v[end_id(last.inst) + 1] = EOS
            /\ \A k \in 1..Len(pieces) :
                  /\ last.ids[k + 1] \in 0..(Len(v) - 1)
                  /\ v[last.ids[k + 1] + 1] = pieces[k]
            /\ \A i, j \in 1..Len(v) : v[i] = v[j] => i = j
            /\ last.text = <<>> =>
                  last.ids = <<begin_id(last.inst), end_id(last.inst)>>

\* an encode of a text with the same piece twice has returned
C9_Witness ==
    /\ IsEncode(last)
    /\ Len(Segment(last.text)) = 2
    /\ Segment(last.text)[1] = Segment(last.text)[2]
    /\ last.ids[2] = last.ids[3]

\* what the claim says decode returns for ids on the entries v
RECURSIVE Concatenated(_, _)
Concatenated(v, ids) ==
    IF ids = <<>> THEN <<>>
    ELSE (IF Head(ids) >= 0 /\ Head(ids) < Len(v) THEN v[Head(ids) + 1]
          ELSE UNK) \o Concatenated(v, Tail(ids))

\* C10: a decode raises no error and returns the concatenation, with no
\* separator, of entries[id] for each id in range and of "[UNK]" for each
\* id out of range, ids at or beyond the vocabulary size and negative ids
\* included.
C10_DecodeSubstitutesUnknown ==
    IsDecode(last) =>
        /\ ~last.err
        /\ last.out = Concatenated(last.inst.vocab, last.ids)

\* a decode of a negative id followed by the id of a token an encode added
C10_Witness ==
    /\ IsDecode(last)
    /\ Len(last.ids) = 2
    /\ last.ids[1] < 0
    /\ last.ids[2] = 2
    /\ Len(last.inst.vocab) > 2
    /\ last.out = UNK \o last.inst.vocab[3]

\* C11: when the save of an encode raises, the caller gets the error and no
\* ids, and the instance keeps what the call added: its entries are the old
\* entries followed by the call's new tokens, each with the next id in
\* token_to_id.  The instance's later calls keep every id it holds and
\* return it for the token.  An encode with grow = true that added tokens
\* and returned without an error has written the entries to the file.
C11_FailedSaveKeepsMutation ==
    [][/\ (last'.op = "encode" /\ last'.err) =>
            LET p == last'.proc
                n == Len(inst[p].vocab)
                new == last'.new_tokens
            IN  /\ new # <<>>
                /\ last'.ids = <<>>
                /\ inst'[p].vocab = inst[p].vocab \o new
                /\ \A k \in 1..Len(new) :
                      /\ new[k] \notin Range(inst[p].vocab)
                      /\ inst'[p].token_to_id[new[k]] = n + k - 1
                      /\ inst'[p].id_to_token[n + k - 1] = new[k]
       /\ \A p \in AllProcs : SameInstance(p) =>
            \A t \in DOMAIN inst[p].token_to_id :
                /\ t \in DOMAIN inst'[p].token_to_id
                /\ inst'[p].token_to_id[t] = inst[p].token_to_id[t]
       /\ (last'.op = "encode" /\ ~last'.err) =>
            /\ \A k \in 1..Len(last'.ids) :
                  Framed(last'.text)[k] \in DOMAIN inst[last'.proc].token_to_id
                      => last'.ids[k]
                            = inst[last'.proc].token_to_id[Framed(last'.text)[k]]
            /\ (last'.grow /\ last'.new_tokens # <<>>) =>
                  file' = save_vocab(inst'[last'.proc].vocab)]_vars

\* an encode has returned the id of a token that the instance added in a
\* call whose save raised: the token is not in the file
C11_Witness ==
    /\ last.op = "encode" /\ ~last.err
    /\ last.new_tokens = <<>>
    /\ \E k \in 1..Len(last.ids) :
          /\ last.ids[k] >= 2
          /\ Framed(last.text)[k] \notin Range(json_load(file.data).val)

\* the file f holds a list of token strings
WellFormedFile(f) ==
    f.exists /\ json_load(f.data).ok /\ json_load(f.data).type = "list"

\* C12 as claimed: when the vocabulary file exists and holds no list of
\* token strings, every construction of the tokenizer, by the process or
\* inside a call through the registry, fails: the call raises, no instance
\* comes to be held, and the file is left as it was.
C12_MalformedFileIsFatal ==
    [][(/\ last'.op \in {"construct", "encode_text", "decode_text"}
        /\ file.exists /\ ~WellFormedFile(file)) =>
            /\ last'.err
            /\ ~last'.inst.live
            /\ inst' = inst
            /\ file' = file]_vars

\* C13: an encode_text or decode_text call with a name that is not in the
\* table raises and returns nothing, no tokenizer is built for it, and the
\* vocabulary file is as before: not created when there was none, not
\* modified when there was one.
C13_UnknownStrategyFails ==
    [][(/\ last'.op \in {"encode_text", "decode_text"}
        /\ last'.tokenizer_type \notin TOKENIZERS) =>
            /\ last'.err
            /\ ~last'.inst.live
            /\ last'.op = "encode_text" => last'.ids = <<>>
            /\ last'.out = <<>>
            /\ file' = file
            /\ inst' = inst]_vars

\* the first call of a run named an unknown strategy: there is still no
\* vocabulary file
C13_Witness ==
    /\ last.op \in {"encode_text", "decode_text"}
    /\ last.tokenizer_type = "NOPE"
    /\ last.err
    /\ ~file.exists

\* the encode call c returned id 2 for the first piece of its text that is
\* no special token (if it has one), and <<0, 2, 1>> when that piece is
\* all its text
FirstPieceGetsTwo(c) ==
    LET pieces == Segment(c.text)
    IN  /\ \A k \in 1..Len(pieces) :
              (/\ pieces[k] \notin {BOS, EOS}
               /\ \A j \in 1..(k - 1) : pieces[j] \in {BOS, EOS})
                  => c.ids[k + 1] = 2 /\ c.inst.vocab[3] = pieces[k]
        /\ (Len(pieces) = 1 /\ pieces[1] \notin {BOS, EOS})
              => c.ids = <<0, 2, 1>>

\* C14: a construction that finds no vocabulary file gives exactly the two
\* special tokens, the begin marker with id 0 and the end marker with id
\* 1, and writes them to the file; the first encode afterwards, on the
\* instance or through the registry, gives id 2 to its first never-seen
\* piece: <<0, 2, 1>> for a single-piece text such as "hi".
C14_FreshVocabulary ==
    [][/\ (last'.op = "construct" /\ ~file.exists) =>
            /\ ~last'.err
            /\ last'.inst.vocab = <<BOS, EOS>>
            /\ last'.inst.token_to_id[BOS] = 0
            /\ last'.inst.token_to_id[EOS] = 1
            /\ DOMAIN last'.inst.token_to_id = {BOS, EOS}
            /\ last'.inst.id_to_token = [i \in {0, 1} |-> <<BOS, EOS>>[i + 1]]
            /\ inst'[last'.proc] = last'.inst
            /\ FileVocab(file') = <<BOS, EOS>>
       /\ (last'.op = "encode_text" /\ ~file.exists) =>
            /\ ~last'.err
            /\ SubSeq(last'.inst.vocab, 1, 2) = <<BOS, EOS>>
            /\ FirstPieceGetsTwo(last')
       /\ (last'.op = "encode" /\ inst[last'.proc].vocab = <<BOS, EOS>>) =>
            /\ ~last'.err
            /\ FirstPieceGetsTwo(last')]_vars

\* the first encode ever on the path, of the text "hi", has returned
\* <<0, 2, 1>>
C14_Witness ==
    /\ last.op = "encode_text"
    /\ last.text = Hi
    /\ last.new_tokens = <<Hi>>
    /\ last.ids = <<0, 2, 1>>
    /\ FileVocab(file) = <<BOS, EOS, Hi>>

\* C15: when process 1, whose entries are a well-formed vocabulary V, has
\* saved it and process 2 has built a tokenizer from the file, the
\* construction has not failed, the file has not changed, and the new
\* instance has the entries V in the same order, every token with the id
\* it has in process 1, and the same id_to_token.
C15_StoreRoundTrip ==
    (last.op = "construct" /\ last.proc = 2) =>
        /\ ~last.err
        /\ file = save_vocab(inst[1].vocab)
        /\ json_load(json_dump(inst[1].vocab)).val = inst[1].vocab
        /\ inst[2].live
        /\ inst[2].vocab = inst[1].vocab
        /\ \A i \in 1..Len(inst[1].vocab) :
              /\ inst[2].token_to_id[inst[1].vocab[i]] = i - 1
              /\ inst[1].token_to_id[inst[1].vocab[i]] = i - 1
        /\ inst[2].id_to_token = inst[1].id_to_token

\* a vocabulary of a token with a quote and a token with a backslash has
\* been saved and loaded
C15_Witness ==
    /\ last.op = "construct" /\ last.proc = 2
    /\ Len(inst[2].vocab) = 2
    /\ "\"" \in Range(inst[2].vocab[1])
    /\ "\\" \in Range(inst[2].vocab[2])

\* the concatenation of the pieces
RECURSIVE Flatten(_)
Flatten(pieces) ==
    IF pieces = <<>> THEN <<>> ELSE Head(pieces) \o Flatten(Tail(pieces))

\* the text without its white space
RECURSIVE WithoutSpace(_)
WithoutSpace(text) ==
    IF text = <<>> THEN <<>>
    ELSE IF Head(text) \in Space THEN WithoutSpace(Tail(text))
    ELSE <<Head(text)>> \o WithoutSpace(Tail(text))

\* the occurrences of -- in the text from position i on, counted from left
\* to right without overlap (as str.count counts them)
RECURSIVE DashPairs(_, _)
DashPairs(text, i) ==
    IF i >= Len(text) THEN 0
    ELSE IF text[i] = "-" /\ text[i + 1] = "-" THEN 1 + DashPairs(text, i + 2)
    ELSE DashPairs(text, i + 1)

\* C16: the pieces of a text are non-empty and neither start nor end with
\* white space; put together in their order they are the text without its
\* white space, so nothing but white space is dropped and nothing is
\* reordered; a piece that holds a punctuation delimiter is that one
\* character, a piece that holds -- is exactly --, and there are as many
\* pieces -- as the text has occurrences of --; "Hello, world!" gives the
\* four pieces Hello , world !
C16_Segmentation ==
    last.op = "split" =>
        LET pieces == last.text_tokens
            text == last.text
        IN  /\ \A k \in 1..Len(pieces) :
                  /\ pieces[k] # <<>>
                  /\ pieces[k][1] \notin Space
                  /\ pieces[k][Len(pieces[k])] \notin Space
                  /\ (\E i \in 1..Len(pieces[k]) : pieces[k][i] \in Punct)
                        => Len(pieces[k]) = 1
                  /\ (\E i \in 1..(Len(pieces[k]) - 1) :
                            pieces[k][i] = "-" /\ pieces[k][i + 1] = "-")
                        => pieces[k] = <<"-", "-">>
            /\ Flatten(pieces) = WithoutSpace(text)
            /\ Cardinality({k \in 1..Len(pieces) : pieces[k] = <<"-", "-">>})
                  = DashPairs(text, 1)
            /\ text = HelloWorld =>
                  pieces = <<SubSeq(text, 1, 5), <<",">>, SubSeq(text, 8, 12),
                             <<"!">>>>

\* a text of an odd run of three hyphens and a comma has been segmented
C16_Witness ==
    /\ last.op = "split"
    /\ last.text = <<"-", "-", "-", ",">>
    /\ last.text_tokens = <<<<"-", "-">>, <<"-">>, <<",">>>>

\* C17: when download_books has returned, the number of successful
\* downloads equals num_books.
C17_ExactlyNumBooks ==
    dl.pc = "done" => dl.successful_downloads = dl.num_books

Contiguous(files, k) ==
    /\ {f[1] : f \in files} = 1..k
    /\ Cardinality(files) = k

\* C20: while download_books runs and after it, index is
\* successful_downloads + 1, successful_downloads is at most num_books, and
\* the files written are book_1 .. book_k for k = successful_downloads, one
\* per success; a failed attempt leaves the index where it was.
C20_IndexFollowsSuccesses ==
    dl.pc # "none" =>
        /\ dl.index = dl.successful_downloads + 1
        /\ dl.successful_downloads <= dl.num_books
        /\ Contiguous(dl.files, dl.successful_downloads)

\* a failed attempt was followed by two successes, which wrote book_1 and
\* book_2
C20_Witness ==
    /\ dl.successful_downloads = 2
    /\ dl.index = 3
    /\ dl.attempts = <<1, 2, 3>>
    /\ dl.files = {<<1, 2>>, <<2, 3>>}

\* vocab u is the beginning of vocab v
IsPrefix(u, v) == Len(u) <= Len(v) /\ u = SubSeq(v, 1, Len(u))

\* C18: with one writer, between calls and after each call, the vocabulary
\* file exists, parses, and its token sequence is the beginning of the
\* entries of the instance the process holds, whatever encodes (grow true
\* or false) and decodes were made.
C18_FileIsPrefixOfMemory ==
    inst[1].live =>
        /\ file.exists
        /\ json_load(file.data).ok
        /\ IsPrefix(json_load(file.data).val, inst[1].vocab)

\* an encode with grow = true has saved a token, and a later encode with
\* grow = false has added another that is in memory only
C18_Witness ==
    /\ last.op = "encode" /\ ~last.err
    /\ ~last.grow
    /\ last.new_tokens # <<>>
    /\ Len(json_load(file.data).val) = 3
    /\ Len(inst[1].vocab) = 4

====
